---- MODULE Spec2Model ----
(***************************************************************************)
(* Model of src/src/components/FileList.tsx: the FileList view (one fetch  *)
(* on mount, a current path changed by clicks) and the grouping pass that  *)
(* turns the flat key list into the rows shown under the current path.     *)
(* Strings are sequences of one-character strings.                         *)
(***************************************************************************)
EXTENDS Integers, Sequences, FiniteSets

VARIABLES files, loading, currentPath, displayItems, pc, fetchCount, lastEvent

vars == <<files, loading, currentPath, displayItems, pc, fetchCount, lastEvent>>

\* the state of the component proper (lastEvent only records which handler ran)
viewVars == <<files, loading, currentPath, displayItems, pc, fetchCount>>

----------------------------------------------------------------------------
\* Bound of the view specification: the size of a fetched list, which is its
\* number of records plus the number of characters of all its keys
MaxSize == 9
\* Bound of the grouper specification: the size of the record list plus the
\* number of characters of the current path
GMaxSize == 8

Alphabet == {"a", "/"}

\* the strings of n characters
RECURSIVE StringsOfLen(_)
StringsOfLen(n) ==
  IF n = 0 THEN {<<>>} ELSE {Append(s, c) : s \in StringsOfLen(n - 1), c \in Alphabet}

\* ListsTable(size)[m + 1] is the set of record lists of size at most m, for m in 0..size
RECURSIVE ListsTable(_)
ListsTable(size) ==
  IF size = 0 THEN <<{<<>>}>>
  ELSE LET smaller == ListsTable(size - 1)
       IN Append(smaller,
                 {<<>>} \cup UNION {{<<[Key |-> k]>> \o l : k \in StringsOfLen(j),
                                                           l \in smaller[size - j]} :
                                     j \in 0..(size - 1)})

FileLists == ListsTable(MaxSize)[MaxSize + 1]

GListsTable == ListsTable(GMaxSize)

----------------------------------------------------------------------------
\* String primitives of the JavaScript runtime, as the component uses them

\* String.prototype.startsWith
StartsWith(s, p) == Len(p) <= Len(s) /\ SubSeq(s, 1, Len(p)) = p

\* String.prototype.slice(n), 0 <= n
Slice(s, n) == SubSeq(s, n + 1, Len(s))

\* String.prototype.split("/"): "" gives [""], "a/" gives ["a", ""]
RECURSIVE Split(_)
Split(s) ==
  IF \E i \in 1..Len(s) : s[i] = "/"
  THEN LET i == CHOOSE i \in 1..Len(s) : s[i] = "/" /\ \A j \in 1..(i - 1) : s[j] # "/"
       IN <<SubSeq(s, 1, i - 1)>> \o Split(SubSeq(s, i + 1, Len(s)))
  ELSE <<s>>

\* Array.prototype.join("/")
RECURSIVE Join(_)
Join(segs) ==
  IF segs = <<>> THEN <<>>
  ELSE IF Len(segs) = 1 THEN segs[1]
  ELSE segs[1] \o <<"/">> \o Join(Tail(segs))

\* Array.prototype.filter(Boolean) on strings: drops the empty ones
RECURSIVE FilterBoolean(_)
FilterBoolean(segs) ==
  IF segs = <<>> THEN <<>>
  ELSE IF Head(segs) = <<>> THEN FilterBoolean(Tail(segs))
  ELSE <<Head(segs)>> \o FilterBoolean(Tail(segs))

----------------------------------------------------------------------------
\* The render pass

\* const pathSegments = currentPath ? currentPath.split("/").filter(Boolean) : []
PathSegments(path) == IF path = <<>> THEN <<>> ELSE FilterBoolean(Split(path))

\* variant: the cumulative path lacks its trailing slash
PathUpToNoSlash(segs, idx) == Join(SubSeq(segs, 1, idx + 1))

\* variant: the cumulative path stops one segment short
PathUpToOffByOne(segs, idx) == Join(SubSeq(segs, 1, idx)) \o <<"/">>

\* const pathUpTo = pathSegments.slice(0, idx + 1).join("/") + "/"   (idx from 0)
PathUpTo(segs, idx) == Join(SubSeq(segs, 1, idx + 1)) \o <<"/">>

\* variant: no prefix filter
FilteredKeepsAll(fs, path) == fs

\* const filtered = files.filter((file) => file.Key.startsWith(currentPath))
RECURSIVE Filtered(_, _)
Filtered(fs, path) ==
  IF fs = <<>> THEN <<>>
  ELSE IF StartsWith(Head(fs).Key, path) THEN <<Head(fs)>> \o Filtered(Tail(fs), path)
  ELSE Filtered(Tail(fs), path)

\* const [nextSegment, ...remaining] = file.Key.slice(currentPath.length).split("/")
NextSegment(key, path) == Head(Split(Slice(key, Len(path))))
Remaining(key, path) == Tail(Split(Slice(key, Len(path))))

\* variant: the synthesized folder path lacks its trailing slash
FolderEntryNoSlash(file, path) ==
  [type |-> "folder", name |-> NextSegment(file.Key, path),
   fullPath |-> path \o NextSegment(file.Key, path)]

FolderEntry(file, path) ==
  [type |-> "folder", name |-> NextSegment(file.Key, path),
   fullPath |-> path \o NextSegment(file.Key, path) \o <<"/">>]

FileEntry(file, path) ==
  [type |-> "file", name |-> NextSegment(file.Key, path),
   fullPath |-> file.Key, item |-> file]

\* variant: a record counts as a folder only with two or more further segments
EntryFolderNeedsTwo(file, path) ==
  IF Len(Remaining(file.Key, path)) > 1 THEN FolderEntry(file, path) ELSE FileEntry(file, path)

\* if (remaining.length > 0) push folder else push file
Entry(file, path) ==
  IF Len(Remaining(file.Key, path)) > 0 THEN FolderEntry(file, path) ELSE FileEntry(file, path)

\* variant: names already seen are not skipped
SkippedIgnoringSeen(file, path, seen) == NextSegment(file.Key, path) = <<>>

\* variant: empty names are not skipped
SkippedOnlySeen(file, path, seen) == NextSegment(file.Key, path) \in seen

\* if (!nextSegment || seen.has(nextSegment)) continue
Skipped(file, path, seen) ==
  NextSegment(file.Key, path) = <<>> \/ NextSegment(file.Key, path) \in seen

\* for (const file of filtered) { ... }
RECURSIVE GroupLoop(_, _, _, _)
GroupLoop(rest, path, seen, items) ==
  IF rest = <<>> THEN items
  ELSE LET file == Head(rest)
       IN IF Skipped(file, path, seen)
          THEN GroupLoop(Tail(rest), path, seen, items)
          ELSE GroupLoop(Tail(rest), path,
                         seen \cup {NextSegment(file.Key, path)},
                         Append(items, Entry(file, path)))

DisplayItems(fs, path) == GroupLoop(Filtered(fs, path), path, {}, <<>>)

----------------------------------------------------------------------------
\* The view: state after construction and first render

Init ==
  /\ files = <<>>
  /\ loading = TRUE
  /\ currentPath = <<>>
  /\ displayItems = <<>>
  /\ pc = "mounted"
  /\ fetchCount = 0
  /\ lastEvent = "mount"

\* useEffect(() => { fetch(url) ... }, []) : runs once, after the first render
StartFetch ==
  /\ pc = "mounted"
  /\ pc' = "fetching"
  /\ fetchCount' = fetchCount + 1
  /\ lastEvent' = "fetch"
  /\ UNCHANGED <<files, loading, currentPath, displayItems>>

\* .then((res) => res.json())
FetchFulfilled ==
  /\ pc = "fetching"
  /\ pc' = "parsing"
  /\ lastEvent' = "response"
  /\ UNCHANGED <<files, loading, currentPath, displayItems, fetchCount>>

\* variant: the failure handler forgets setLoading(false)
CatchHandlerKeepsLoading ==
  /\ pc' = "failed"
  /\ UNCHANGED <<files, loading, currentPath, displayItems, fetchCount>>

\* .catch(...) : setLoading(false)
CatchHandler ==
  /\ pc' = "failed"
  /\ loading' = FALSE
  /\ displayItems' = DisplayItems(files, currentPath)
  /\ UNCHANGED <<files, currentPath, fetchCount>>

\* fetch(url) rejects
FetchRejected ==
  /\ pc = "fetching"
  /\ lastEvent' = "fetchRejected"
  /\ CatchHandler

\* res.json() rejects: the body is not JSON
JsonRejected ==
  /\ pc = "parsing"
  /\ lastEvent' = "jsonRejected"
  /\ CatchHandler

\* .then((data) => { setFiles(data); setLoading(false); })
\* data: whatever array the endpoint returned
JsonFulfilled ==
  /\ pc = "parsing"
  /\ \E data \in FileLists :
       /\ files' = data
       /\ displayItems' = DisplayItems(data, currentPath)
  /\ pc' = "loaded"
  /\ loading' = FALSE
  /\ lastEvent' = "data"
  /\ UNCHANGED <<currentPath, fetchCount>>

\* setCurrentPath(p), followed by the render it causes
SetCurrentPath(p) ==
  /\ currentPath' = p
  /\ displayItems' = DisplayItems(files, p)
  /\ UNCHANGED <<files, loading, pc, fetchCount>>

\* Home: onClick={() => setCurrentPath("")}; nothing is clickable while loading
Home ==
  /\ ~loading
  /\ lastEvent' = "home"
  /\ SetCurrentPath(<<>>)

\* breadcrumb segment idx: onClick={() => setCurrentPath(pathUpTo)}
Breadcrumb(idx) ==
  /\ ~loading
  /\ idx \in 0..(Len(PathSegments(currentPath)) - 1)
  /\ lastEvent' = "crumb"
  /\ SetCurrentPath(PathUpTo(PathSegments(currentPath), idx))

\* variant: a file row navigates too
RowTargetAlways(entry, path) == entry.fullPath

\* variant: a folder row does not navigate
RowTargetNever(entry, path) == path

\* the path a click on a row sets: entry.type === "folder" ? setCurrentPath(entry.fullPath) : undefined
RowTarget(entry, path) == IF entry.type = "folder" THEN entry.fullPath ELSE path

\* table row i: onClick
ClickRow(i) ==
  /\ ~loading
  /\ i \in 1..Len(displayItems)
  /\ lastEvent' = IF displayItems[i].type = "folder" THEN "folderRow" ELSE "fileRow"
  /\ SetCurrentPath(RowTarget(displayItems[i], currentPath))

Next ==
  \/ StartFetch
  \/ FetchFulfilled
  \/ FetchRejected
  \/ JsonRejected
  \/ JsonFulfilled
  \/ Home
  \/ \E idx \in 0..MaxSize : Breadcrumb(idx)
  \/ \E i \in 1..MaxSize : ClickRow(i)

Spec == Init /\ [][Next]_vars

----------------------------------------------------------------------------
\* The grouper as a function: any record list, any current path

GInit ==
  /\ \E j \in 0..GMaxSize :
       /\ currentPath \in StringsOfLen(j)
       /\ files \in GListsTable[GMaxSize - j + 1]
  /\ loading = FALSE
  /\ displayItems = <<>>
  /\ pc = "inputs"
  /\ fetchCount = 0
  /\ lastEvent = "none"

GRender ==
  /\ pc = "inputs"
  /\ pc' = "grouped"
  /\ displayItems' = DisplayItems(files, currentPath)
  /\ lastEvent' = "render"
  /\ UNCHANGED <<files, loading, currentPath, fetchCount>>

GNext == GRender

GrouperSpec == GInit /\ [][GNext]_vars

----------------------------------------------------------------------------
\* Vocabulary of the properties

Last(s) == s[Len(s)]
EndsWithSlash(s) == s # <<>> /\ Last(s) = "/"
HasSlash(s) == \E j \in 1..Len(s) : s[j] = "/"
Entries == {displayItems[n] : n \in 1..Len(displayItems)}

\* what is left of a key once the current path is removed from its front
Remainder(key, path) == SubSeq(key, Len(path) + 1, Len(key))

\* the characters of r before its first slash
ChildName(r) ==
  LET n == CHOOSE n \in 0..Len(r) :
             /\ \A j \in 1..n : r[j] # "/"
             /\ n = Len(r) \/ r[n + 1] = "/"
  IN SubSeq(r, 1, n)

\* record i of fs is under path and names a child of it
Yields(fs, path, i) ==
  StartsWith(fs[i].Key, path) /\ ChildName(Remainder(fs[i].Key, path)) # <<>>

\* the records that are the first, in input order, to yield their child name
FirstOccurrences(fs, path) ==
  {i \in 1..Len(fs) :
     /\ Yields(fs, path, i)
     /\ \A j \in 1..(i - 1) :
          ~(/\ Yields(fs, path, j)
            /\ ChildName(Remainder(fs[j].Key, path)) = ChildName(Remainder(fs[i].Key, path)))}

ExpectedEntry(fs, path, i) ==
  LET r == Remainder(fs[i].Key, path)
  IN IF HasSlash(r)
     THEN [type |-> "folder", name |-> ChildName(r), fullPath |-> path \o ChildName(r) \o <<"/">>]
     ELSE [type |-> "file", name |-> ChildName(r), fullPath |-> fs[i].Key, item |-> fs[i]]

RECURSIVE InOrder(_, _, _)
InOrder(fs, path, I) ==
  IF I = {} THEN <<>>
  ELSE LET m == CHOOSE m \in I : \A k \in I : m <= k
       IN <<ExpectedEntry(fs, path, m)>> \o InOrder(fs, path, I \ {m})

ExpectedListing(fs, path) == InOrder(fs, path, FirstOccurrences(fs, path))

----------------------------------------------------------------------------
\* C1: the grouper's output is the scan of the records in input order: those
\* under the current path, one entry per distinct non-empty child name at the
\* position of its first occurrence, with the kind and fullPath of that first
\* record.
C1_FirstOccurrenceOrder ==
  pc = "grouped" => displayItems = ExpectedListing(files, currentPath)

\* three records at the root, two of them collapsing into one folder that is
\* listed before a file (the shape of scenario A)
C1_Witness ==
  /\ pc = "grouped"
  /\ currentPath = <<>>
  /\ Len(files) = 3
  /\ Yields(files, currentPath, 1)
  /\ ChildName(files[1].Key) = ChildName(files[2].Key)
  /\ Len(displayItems) = 2
  /\ displayItems[1].type = "folder"
  /\ displayItems[2].type = "file"
  /\ files[3] = displayItems[2].item

\* C3: no two entries of one grouper run have the same name, also when one
\* record yields the name as a file and another as a folder.
C3_DistinctNames ==
  pc = "grouped" =>
    \A m, n \in 1..Len(displayItems) :
      m # n => displayItems[m].name # displayItems[n].name

\* a file and a folder of the same name are both under the current path
C3_Witness ==
  /\ pc = "grouped"
  /\ displayItems # <<>>
  /\ \E i, j \in 1..Len(files) :
       /\ Yields(files, currentPath, i) /\ Yields(files, currentPath, j)
       /\ ChildName(Remainder(files[i].Key, currentPath))
            = ChildName(Remainder(files[j].Key, currentPath))
       /\ HasSlash(Remainder(files[i].Key, currentPath))
       /\ ~HasSlash(Remainder(files[j].Key, currentPath))

\* C5: the fullPath of every entry, folder or file, starts with the current path.
C5_FullPathUnderCurrentPath ==
  pc = "grouped" => \A e \in Entries : StartsWith(e.fullPath, currentPath)

\* a folder path with a file listed under it and a record outside it
C5_Witness ==
  /\ pc = "grouped"
  /\ EndsWithSlash(currentPath)
  /\ currentPath[1] # "/"
  /\ \E e \in Entries : e.type = "file"
  /\ \E i \in 1..Len(files) : ~StartsWith(files[i].Key, currentPath)

----------------------------------------------------------------------------
\* Properties of the view

KeysDistinct(fs) == \A i, j \in 1..Len(fs) : i # j => fs[i].Key # fs[j].Key

\* the data model of the records: keys are non-empty, have no leading slash
\* and are pairwise distinct
DataModel(fs) ==
  /\ \A i \in 1..Len(fs) : fs[i].Key # <<>> /\ fs[i].Key[1] # "/"
  /\ KeysDistinct(fs)

\* the prefixes of p that end with a slash, shortest first
RECURSIVE SlashPrefixesUpTo(_, _)
SlashPrefixesUpTo(p, n) ==
  IF n = 0 THEN <<>>
  ELSE IF p[n] = "/" THEN Append(SlashPrefixesUpTo(p, n - 1), SubSeq(p, 1, n))
  ELSE SlashPrefixesUpTo(p, n - 1)

SlashPrefixes(p) == SlashPrefixesUpTo(p, Len(p))

\* C2: after any navigation the current path is empty, or ends with a slash
\* and is a prefix of the key of some loaded record.
C2_CurrentPathIsKeyPrefix ==
  \/ currentPath = <<>>
  \/ /\ EndsWithSlash(currentPath)
     /\ \E i \in 1..Len(files) : StartsWith(files[i].Key, currentPath)

\* a breadcrumb click that left the view inside a folder
C2_Witness == lastEvent = "crumb" /\ currentPath # <<>>

\* C9: the breadcrumb's cumulative paths are the slash-terminated prefixes of
\* the current path, shortest first; the last one is the current path; the
\* path set by segment idx has exactly the segments up to idx as breadcrumb.
C9_BreadcrumbPrefixes ==
  LET segs == PathSegments(currentPath)
      pre == SlashPrefixes(currentPath)
  IN /\ Len(pre) = Len(segs)
     /\ \A idx \in 0..(Len(segs) - 1) :
          /\ PathUpTo(segs, idx) = pre[idx + 1]
          /\ PathSegments(PathUpTo(segs, idx)) = SubSeq(segs, 1, idx + 1)
     /\ segs # <<>> => PathUpTo(segs, Len(segs) - 1) = currentPath

\* a breadcrumb click that left the view two folders deep
C9_Witness == lastEvent = "crumb" /\ Len(PathSegments(currentPath)) >= 2

\* C7: after a failed fetch the view is not loading, holds no record and
\* lists nothing; no other fetch is issued and loading never comes back.
C7_FailedFetch ==
  /\ [](pc = "failed" =>
          /\ ~loading
          /\ files = <<>>
          /\ displayItems = <<>>
          /\ fetchCount = 1)
  /\ [][pc = "failed" => (pc' = "failed" /\ fetchCount' = fetchCount /\ ~loading')]_vars
  /\ [][~loading => ~loading']_vars

\* the fetch failed and the user then clicked Home
C7_Witness == pc = "failed" /\ lastEvent = "home" /\ fetchCount = 1

\* C8: one fetch per view; Home, breadcrumb and row clicks leave the records
\* and the loading flag alone; a click on a file row changes nothing.
C8_NavigationFrame ==
  /\ [](fetchCount <= 1 /\ (~loading => fetchCount = 1))
  /\ [][fetchCount' # fetchCount => pc = "mounted"]_vars
  /\ [][(Home \/ (\E idx \in 0..MaxSize : Breadcrumb(idx)) \/ (\E i \in 1..Len(displayItems) : ClickRow(i)))
          => UNCHANGED <<files, loading, pc, fetchCount>>]_vars
  /\ [][(\E i \in 1..Len(displayItems) : displayItems[i].type = "file" /\ ClickRow(i))
          => UNCHANGED viewVars]_vars

\* a file row was clicked inside a folder
C8_Witness == lastEvent = "fileRow" /\ currentPath # <<>> /\ fetchCount = 1

\* the number of records of fs whose key is k
KeyCount(fs, k) == Cardinality({i \in 1..Len(fs) : fs[i].Key = k})

\* C4: for records with pairwise distinct keys, as the data model requires:
\* a folder entry's fullPath ends with a slash and it has no backing record;
\* a file entry's fullPath is the key of exactly one input record, which is
\* its backing record.
C4_EntryPaths ==
  KeysDistinct(files) =>
    \A e \in Entries :
      IF e.type = "folder"
      THEN EndsWithSlash(e.fullPath) /\ "item" \notin DOMAIN e
      ELSE /\ "item" \in DOMAIN e
           /\ KeyCount(files, e.fullPath) = 1
           /\ \E i \in 1..Len(files) : files[i].Key = e.fullPath /\ e.item = files[i]

\* a folder and a file listed together, from records with distinct keys
C4_Witness ==
  /\ pc = "loaded"
  /\ KeysDistinct(files)
  /\ \E e \in Entries : e.type = "folder"
  /\ \E e \in Entries : e.type = "file"

\* record i passes the prefix filter and has an empty child name
EmptyNamed(fs, path, i) ==
  StartsWith(fs[i].Key, path) /\ NextSegment(fs[i].Key, path) = <<>>

\* record i gives rise to no entry
ContributesNothing(fs, i) ==
  \A e \in Entries : e.name # <<>> /\ e.fullPath # fs[i].Key

\* C6 as stated, over the record sets that satisfy the data model: a record
\* that passes the filter has an empty child name only when its key is the
\* current path, and it then contributes no entry.
C6_AsStated ==
  (pc = "loaded" /\ DataModel(files)) =>
    \A i \in 1..Len(files) :
      EmptyNamed(files, currentPath, i) =>
        files[i].Key = currentPath /\ ContributesNothing(files, i)

\* C6 (amended): a record that passes the filter has an empty child name
\* exactly when its key is the current path or the current path is followed
\* by a slash in it; such a record is skipped and contributes no entry.
C6_EmptyNameSkipped ==
  pc = "loaded" =>
    \A i \in 1..Len(files) :
      StartsWith(files[i].Key, currentPath) =>
        /\ NextSegment(files[i].Key, currentPath) = <<>>
             <=> \/ files[i].Key = currentPath
                 \/ files[i].Key[Len(currentPath) + 1] = "/"
        /\ EmptyNamed(files, currentPath, i) => ContributesNothing(files, i)

\* inside a folder, next to a listed entry, a record with an empty child name
\* whose key is not the current path
C6_Witness ==
  /\ lastEvent = "folderRow"
  /\ DataModel(files)
  /\ displayItems # <<>>
  /\ \E i \in 1..Len(files) :
       EmptyNamed(files, currentPath, i) /\ files[i].Key # currentPath

\* the paths a sequence of row clicks reaches from the paths of frontier
RECURSIVE ReachFrom(_, _, _)
ReachFrom(fs, frontier, visited) ==
  IF frontier = {} THEN visited
  ELSE LET targets == UNION {{RowTarget(DisplayItems(fs, p)[n], p) :
                                n \in 1..Len(DisplayItems(fs, p))} : p \in frontier}
       IN ReachFrom(fs, targets \ (visited \cup frontier), visited \cup frontier)

ReachPaths(fs) == ReachFrom(fs, {<<>>}, {})

\* record i is listed as a file under one of the paths
ShownAsFile(fs, paths, i) ==
  \E p \in paths : \E n \in 1..Len(DisplayItems(fs, p)) :
    /\ DisplayItems(fs, p)[n].type = "file"
    /\ DisplayItems(fs, p)[n].item = fs[i]
    /\ DisplayItems(fs, p)[n].fullPath = fs[i].Key

\* every record whose key does not end with a slash is listed as a file
\* somewhere row clicks lead
AllFilesShown(fs) ==
  LET paths == ReachPaths(fs)
  IN \A i \in 1..Len(fs) : ~EndsWithSlash(fs[i].Key) => ShownAsFile(fs, paths, i)

\* every folder listed now opens a listing with at least one entry
FoldersNonEmpty ==
  \A e \in Entries : e.type = "folder" => DisplayItems(files, e.fullPath) # <<>>

\* the key of record i has no empty segment
NoEmptySegment(fs, i) ==
  LET k == fs[i].Key
  IN /\ k # <<>> /\ k[1] # "/" /\ k[Len(k)] # "/"
     /\ \A n \in 1..(Len(k) - 1) : ~(k[n] = "/" /\ k[n + 1] = "/")

\* every folder on the way to record i is listed as a folder: a record whose
\* key is a prefix q of the key that ends just before a slash comes after some
\* record whose key starts with q and a slash
FoldersOnTheWayListed(fs, i) ==
  LET k == fs[i].Key
  IN \A n \in 2..Len(k) :
       k[n] = "/" =>
         \A j \in 1..Len(fs) :
           fs[j].Key = SubSeq(k, 1, n - 1) =>
             \E h \in 1..(j - 1) : StartsWith(fs[h].Key, SubSeq(k, 1, n))

\* no record before record i has a key that starts with its key and a slash
NoFolderOfItsNameBefore(fs, i) ==
  \A j \in 1..(i - 1) : ~StartsWith(fs[j].Key, fs[i].Key \o <<"/">>)

\* some key continues path with a character other than a slash
HasNamedChild(fs, path) ==
  \E j \in 1..Len(fs) :
    /\ StartsWith(fs[j].Key, path)
    /\ Len(fs[j].Key) > Len(path)
    /\ fs[j].Key[Len(path) + 1] # "/"

\* C10 as stated: for records that satisfy the data model, every record whose
\* key does not end with a slash is listed as a file somewhere folder clicks
\* lead from the root, and every folder listed opens a non-empty listing.
C10_AsStated ==
  (pc = "loaded" /\ DataModel(files)) => (AllFilesShown(files) /\ FoldersNonEmpty)

\* C10 (amended): for records that satisfy the data model, a record whose key
\* does not end with a slash is listed as a file somewhere folder clicks lead
\* from the root exactly when its key has no empty segment, every folder on
\* the way to it is listed as a folder, and no record before it has a key that
\* starts with its key and a slash; a folder listed opens a non-empty listing
\* exactly when some key continues its fullPath with a character other than a
\* slash.
C10_FileShownExactlyWhen ==
  (pc = "loaded" /\ DataModel(files)) =>
    /\ LET paths == ReachPaths(files)
       IN \A i \in 1..Len(files) :
            ~EndsWithSlash(files[i].Key) =>
              (ShownAsFile(files, paths, i)
                 <=> /\ NoEmptySegment(files, i)
                     /\ FoldersOnTheWayListed(files, i)
                     /\ NoFolderOfItsNameBefore(files, i))
    /\ \A e \in Entries :
         e.type = "folder" =>
           (DisplayItems(files, e.fullPath) # <<>> <=> HasNamedChild(files, e.fullPath))

\* a folder that two records collapsed into was opened and lists them both as files
C10_Witness ==
  /\ lastEvent = "folderRow"
  /\ DataModel(files)
  /\ Len(files) = 2
  /\ Len(displayItems) = 2
  /\ \A e \in Entries : e.type = "file"

====
